---------------------------- MODULE Spec2Model ----------------------------
(***************************************************************************)
(* Model of the Netflix viewing dashboard (a React component `Home`) in    *)
(* its two variants:                                                        *)
(*   "count"    - src/unnamed/part_000 : one watch per row, paginated      *)
(*   "duration" - src/src/app/page.tsx : parsed minutes per row, top 10    *)
(*                                                                         *)
(* Conventions                                                             *)
(*   - a JavaScript string is the sequence of its UTF-16 code units;       *)
(*   - an optional value (T | undefined, T | null) is a sequence of        *)
(*     length 0 (absent) or 1 (present);                                   *)
(*   - a JavaScript Map is the sequence of its <<key, value>> entries in   *)
(*     insertion order.                                                    *)
(***************************************************************************)
EXTENDS Integers, Sequences, FiniteSets, TLC

VARIABLES
    variant,   \* which of the two page components is running
    rows,      \* useState<RawRow[] | null>
    error,     \* useState<string | null>
    page,      \* useState(0), count variant only
    byDay,     \* memoized day series of the last render
    byTitle,   \* memoized title series of the last render
    selected,  \* the file the <input> holds: the most recent selection
    parses,    \* the Papa.parse calls in flight, in the order they were started
    pc,        \* position of the pure-function harnesses
    raw,       \* input of parseDurationToMinutes
    minutes    \* its result

vars == <<variant, rows, error, page, byDay, byTitle, selected, parses, pc, raw, minutes>>

-----------------------------------------------------------------------------
(* Bounds *)

MaxRows == 4
MaxTitles == 17
MaxInFlight == 2
MaxLen == 5

-----------------------------------------------------------------------------
(* Optional values and JavaScript strings *)

None == <<>>
Some(x) == <<x>>

\* a ?? b
Nullish(opt, dflt) == IF opt = None THEN dflt ELSE opt[1]

Min(a, b) == IF a < b THEN a ELSE b
Max(a, b) == IF a > b THEN a ELSE b

IsDigit(c) == c \in 48..57

\* \s of a JavaScript regular expression, and the characters trim() removes
IsSpace(c) == c \in {9, 10, 11, 12, 13, 32, 160, 5760, 8232, 8233, 8239, 8287, 12288, 65279}
                 \cup (8192..8202)

\* a < b on strings: comparison of the code units at the first difference
StrLess(a, b) ==
    LET n == Min(Len(a), Len(b))
        diff == {i \in 1..n : a[i] # b[i]}
    IN  IF diff = {} THEN Len(a) < Len(b)
        ELSE LET k == CHOOSE i \in diff : \A j \in diff : i <= j
             IN  a[k] < b[k]

\* String.prototype.trim
trim(s) ==
    LET keep == {i \in 1..Len(s) : ~IsSpace(s[i])}
    IN  IF keep = {} THEN <<>>
        ELSE LET lo == CHOOSE i \in keep : \A j \in keep : i <= j
                 hi == CHOOSE i \in keep : \A j \in keep : j <= i
             IN  SubSeq(s, lo, hi)

\* parseInt of a string of decimal digits
RECURSIVE parseInt(_)
parseInt(s) ==
    IF s = <<>> THEN 0
    ELSE 10 * parseInt(SubSeq(s, 1, Len(s) - 1)) + (s[Len(s)] - 48)

-----------------------------------------------------------------------------
(* Map<string, number> *)

MapHas(m, k) == \E i \in 1..Len(m) : m[i][1] = k

\* m.get(k) ?? 0
MapGet0(m, k) ==
    IF MapHas(m, k) THEN m[CHOOSE i \in 1..Len(m) : m[i][1] = k][2] ELSE 0

\* m.set(k, v): an existing key keeps its position, a new key is appended
MapSet(m, k, v) ==
    IF MapHas(m, k)
    THEN [i \in 1..Len(m) |-> IF m[i][1] = k THEN <<k, v>> ELSE m[i]]
    ELSE Append(m, <<k, v>>)

-----------------------------------------------------------------------------
(* Array helpers *)

Front(s) == SubSeq(s, 1, Len(s) - 1)

\* Array.prototype.slice(from, to), 0-based, end exclusive
slice(s, from, to) == SubSeq(s, Min(from, Len(s)) + 1, Min(to, Len(s)))

-----------------------------------------------------------------------------
(* Regular expressions of parseDurationToMinutes *)

At(s, i) == IF i \in 1..Len(s) THEN s[i] ELSE -1

\* length of the longest run of digits starting at position i
DigitRun(s, i) ==
    IF i > Len(s) THEN 0
    ELSE CHOOSE n \in 0..(Len(s) - i + 1) :
            /\ \A j \in i..(i + n - 1) : IsDigit(s[j])
            /\ ~IsDigit(At(s, i + n))

\* length of the longest run of \s starting at position i
SpaceRun(s, i) ==
    IF i > Len(s) THEN 0
    ELSE CHOOSE n \in 0..(Len(s) - i + 1) :
            /\ \A j \in i..(i + n - 1) : IsSpace(s[j])
            /\ ~IsSpace(At(s, i + n))

\* /h/i, /m/i, /i/i, /n/i
IsH(c) == c \in {104, 72}
IsM(c) == c \in {109, 77}
IsI(c) == c \in {105, 73}
IsN(c) == c \in {110, 78}

\* /^(\d+):(\d{1,2}):(\d{1,2})$/  -> the groups <<h, mm, ss>>, or None
matchHMS(s) ==
    LET a == DigitRun(s, 1)
        b == DigitRun(s, a + 2)
        c == DigitRun(s, a + b + 3)
    IN  IF /\ a >= 1 /\ At(s, a + 1) = 58
           /\ b \in 1..2 /\ At(s, a + b + 2) = 58
           /\ c \in 1..2 /\ a + b + c + 2 = Len(s)
        THEN Some(<<SubSeq(s, 1, a), SubSeq(s, a + 2, a + b + 1),
                    SubSeq(s, a + b + 3, a + b + c + 2)>>)
        ELSE None

\* /^(\d{1,2}):(\d{1,2})$/  -> the groups <<mm, ss>>, or None
matchMS(s) ==
    LET a == DigitRun(s, 1)
        b == DigitRun(s, a + 2)
    IN  IF /\ a \in 1..2 /\ At(s, a + 1) = 58
           /\ b \in 1..2 /\ a + b + 1 = Len(s)
        THEN Some(<<SubSeq(s, 1, a), SubSeq(s, a + 2, a + b + 1)>>)
        ELSE None

\* /^(\d+)\s*h\s*(\d+)\s*m$/i  -> the groups <<X, Y>>, or None
matchHM(s) ==
    LET a  == DigitRun(s, 1)
        w1 == SpaceRun(s, a + 1)
        ph == a + w1 + 1
        w2 == SpaceRun(s, ph + 1)
        b  == DigitRun(s, ph + w2 + 1)
        w3 == SpaceRun(s, ph + w2 + b + 1)
        pm == ph + w2 + b + w3 + 1
    IN  IF /\ a >= 1 /\ IsH(At(s, ph))
           /\ b >= 1 /\ IsM(At(s, pm)) /\ pm = Len(s)
        THEN Some(<<SubSeq(s, 1, a), SubSeq(s, ph + w2 + 1, ph + w2 + b)>>)
        ELSE None

\* /^(\d+)\s*m(in)?$/i  -> the group <<X>>, or None
matchM(s) ==
    LET a  == DigitRun(s, 1)
        w  == SpaceRun(s, a + 1)
        pm == a + w + 1
    IN  IF /\ a >= 1 /\ IsM(At(s, pm))
           /\ \/ pm = Len(s)
              \/ IsI(At(s, pm + 1)) /\ IsN(At(s, pm + 2)) /\ pm + 2 = Len(s)
        THEN Some(<<SubSeq(s, 1, a)>>)
        ELSE None

\* /^(\d+)$/  -> the group <<X>>, or None
matchInt(s) ==
    IF Len(s) >= 1 /\ DigitRun(s, 1) = Len(s) THEN Some(<<s>>) ELSE None

-----------------------------------------------------------------------------
(* Pure helpers of the two components *)

\* seeded fault: seconds rounded to the nearest minute, Math.round for Math.floor
parseDurationToMinutes_Round(rawOpt) ==
    IF rawOpt = None \/ rawOpt[1] = <<>> THEN 0
    ELSE LET s   == trim(rawOpt[1])
             hms == matchHMS(s)
             ms  == matchMS(s)
             hm  == matchHM(s)
             m   == matchM(s)
             n   == matchInt(s)
         IN  IF hms # None
               THEN parseInt(hms[1][1]) * 60 + parseInt(hms[1][2])
                      + ((parseInt(hms[1][3]) + 30) \div 60)
             ELSE IF ms # None
               THEN parseInt(ms[1][1]) + ((parseInt(ms[1][2]) + 30) \div 60)
             ELSE IF hm # None
               THEN parseInt(hm[1][1]) * 60 + parseInt(hm[1][2])
             ELSE IF m # None
               THEN parseInt(m[1][1])
             ELSE IF n # None
               THEN parseInt(n[1][1])
             ELSE 0

\* page.tsx, parseDurationToMinutes(raw?: string): number
parseDurationToMinutes(rawOpt) ==
    IF rawOpt = None \/ rawOpt[1] = <<>> THEN 0
    ELSE LET s   == trim(rawOpt[1])
             hms == matchHMS(s)
             ms  == matchMS(s)
             hm  == matchHM(s)
             m   == matchM(s)
             n   == matchInt(s)
         IN  IF hms # None
               THEN parseInt(hms[1][1]) * 60 + parseInt(hms[1][2])
                      + (parseInt(hms[1][3]) \div 60)
             ELSE IF ms # None
               THEN parseInt(ms[1][1]) + (parseInt(ms[1][2]) \div 60)
             ELSE IF hm # None
               THEN parseInt(hm[1][1]) * 60 + parseInt(hm[1][2])
             ELSE IF m # None
               THEN parseInt(m[1][1])
             ELSE IF n # None
               THEN parseInt(n[1][1])
             ELSE 0

IsLeap(y) == (y % 4 = 0 /\ y % 100 # 0) \/ y % 400 = 0

DaysInMonth(y, mo) ==
    IF mo = 2 THEN (IF IsLeap(y) THEN 29 ELSE 28)
    ELSE IF mo \in {4, 6, 9, 11} THEN 30 ELSE 31

\* Whether s is a UTC timestamp "YYYY-MM-DDTHH:mm:ssZ" of the ECMAScript
\* date-time string format, the only shape `new Date(raw)` is given here
\* besides strings no engine parses.
IsIsoUtc(s) ==
    /\ Len(s) = 20
    /\ \A i \in {1, 2, 3, 4, 6, 7, 9, 10, 12, 13, 15, 16, 18, 19} : IsDigit(s[i])
    /\ s[5] = 45 /\ s[8] = 45 /\ s[11] = 84
    /\ s[14] = 58 /\ s[17] = 58 /\ s[20] = 90
    /\ parseInt(SubSeq(s, 6, 7)) \in 1..12
    /\ parseInt(SubSeq(s, 9, 10)) \in
          1..DaysInMonth(parseInt(SubSeq(s, 1, 4)), parseInt(SubSeq(s, 6, 7)))
    /\ parseInt(SubSeq(s, 12, 13)) \in 0..23
    /\ parseInt(SubSeq(s, 15, 16)) \in 0..59
    /\ parseInt(SubSeq(s, 18, 19)) \in 0..59

\* page.tsx, toDateKey(raw?: string): string | null
toDateKey(rawOpt) ==
    IF rawOpt = None \/ rawOpt[1] = <<>> THEN None
    ELSE IF IsIsoUtc(rawOpt[1]) THEN Some(SubSeq(rawOpt[1], 1, 10))
    ELSE None

\* title.indexOf(":"), 0-based, -1 when absent
indexOfColon(s) ==
    LET at == {i \in 1..Len(s) : s[i] = 58}
    IN  IF at = {} THEN -1
        ELSE (CHOOSE i \in at : \A j \in at : i <= j) - 1

\* part_000, identifyShow(title?: string)
identifyShow(titleOpt) ==
    IF titleOpt = None \/ titleOpt[1] = <<>> THEN <<>>
    ELSE LET title == titleOpt[1]
             firstColon == indexOfColon(title)
         IN  trim(IF firstColon = -1 THEN title ELSE SubSeq(title, 1, firstColon))

-----------------------------------------------------------------------------
(* Rows.  One record shape serves both variants; a column a variant does     *)
(* not read is absent.                                                      *)

Row(title, date, start, startUTC, duration) ==
    [Title |-> title, Date |-> date, StartTime |-> start,
     StartTimeUTC |-> startUTC, Duration |-> duration]

\* the sentinel day key of the count variant, "1/1/75"
SENTINEL == <<49, 47, 49, 47, 55, 53>>

PAGE_SIZE == 8
TOP_TITLES == 10

-----------------------------------------------------------------------------
(* The comparators, and Array.prototype.sort: a stable sort driven by the    *)
(* comparator named.  Each element moves left past the elements the         *)
(* comparator puts after it.                                                *)

\* seeded fault: (a, b) => (a.day > b.day ? -1 : 1)
cmpDay_Reversed(a, b) == IF StrLess(b.day, a.day) THEN -1 ELSE 1

\* (a, b) => (a.day < b.day ? -1 : 1)
cmpDay(a, b) == IF StrLess(a.day, b.day) THEN -1 ELSE 1

\* seeded fault: (a, b) => a.watched - b.watched
cmpWatched_Ascending(a, b) == a.watched - b.watched

\* part_000: (a, b) => b.watched - a.watched
cmpWatched(a, b) == b.watched - a.watched

\* page.tsx: (a, b) => b.minutes - a.minutes
cmpMinutes(a, b) == b.minutes - a.minutes

\* the call of the comparator function handed to sort
compare(cmp, a, b) ==
    CASE cmp = "day"     -> cmpDay(a, b)
      [] cmp = "watched" -> cmpWatched(a, b)
      [] cmp = "minutes" -> cmpMinutes(a, b)

RECURSIVE insert(_, _, _)
insert(cmp, s, e) ==
    IF s = <<>> THEN <<e>>
    ELSE IF compare(cmp, s[Len(s)], e) > 0
         THEN Append(insert(cmp, Front(s), e), s[Len(s)])
         ELSE Append(s, e)

RECURSIVE sort(_, _)
sort(cmp, s) ==
    IF s = <<>> THEN <<>> ELSE insert(cmp, sort(cmp, Front(s)), s[Len(s)])

-----------------------------------------------------------------------------
(* Count variant (part_000): the useMemo computing byDay and byTitle *)

\* (r["Title"] ?? "").toString()
titleOfCount(r) == Nullish(r.Title, <<>>)

\* seeded fault: (r["Date"] || "1/1/75"), which also replaces an empty Date
dateOfCount_Falsy(r) == IF r.Date = None \/ r.Date[1] = <<>> THEN SENTINEL ELSE r.Date[1]

\* (r["Date"] ?? "1/1/75").toString()
dateOfCount(r) == Nullish(r.Date, SENTINEL)

\* seeded fault: titleMap.set(title, 1), the running count dropped
forEachCount_Overwrite(maps, r) ==
    LET title == titleOfCount(r)
        date  == dateOfCount(r)
    IN  <<MapSet(maps[1], date, MapGet0(maps[1], date) + 1),
          MapSet(maps[2], title, 1)>>

\* the body of rows.forEach: maps is <<dayMap, titleMap>>
forEachCount(maps, r) ==
    LET title == titleOfCount(r)
        date  == dateOfCount(r)
    IN  <<MapSet(maps[1], date, MapGet0(maps[1], date) + 1),
          MapSet(maps[2], title, MapGet0(maps[2], title) + 1)>>

RECURSIVE mapsCount(_)
mapsCount(rs) ==
    IF rs = <<>> THEN <<<<>>, <<>>>>
    ELSE forEachCount(mapsCount(Front(rs)), rs[Len(rs)])

byDayCount(rowsOpt) ==
    LET dayMap == IF rowsOpt = None THEN <<>> ELSE mapsCount(rowsOpt[1])[1]
    IN  sort("day", [i \in 1..Len(dayMap) |->
                         [day |-> dayMap[i][1], watched |-> dayMap[i][2]]])

byTitleCount(rowsOpt) ==
    LET titleMap == IF rowsOpt = None THEN <<>> ELSE mapsCount(rowsOpt[1])[2]
    IN  sort("watched", [i \in 1..Len(titleMap) |->
                         [title |-> titleMap[i][1], watched |-> titleMap[i][2]]])

-----------------------------------------------------------------------------
(* Duration variant (page.tsx): the useMemo computing byDay and byTitle *)

\* toDateKey(r["Start Time"] ?? r["Start Time UTC"])
startOf(r) == toDateKey(IF r.StartTime # None THEN r.StartTime ELSE r.StartTimeUTC)

\* (r["Title"] ?? "").toString()
titleOfMinutes(r) == Nullish(r.Title, <<>>)

\* seeded fault: the `if (title)` guard dropped
forEachMinutes_NoGuard(maps, r) ==
    LET start == startOf(r)
        title == titleOfMinutes(r)
        mins  == parseDurationToMinutes(r.Duration)
    IN  <<IF start # None /\ start[1] # <<>>
            THEN MapSet(maps[1], start[1], MapGet0(maps[1], start[1]) + mins)
            ELSE maps[1],
          MapSet(maps[2], title, MapGet0(maps[2], title) + mins)>>

\* the body of rows.forEach: maps is <<dayMap, titleMap>>
forEachMinutes(maps, r) ==
    LET start == startOf(r)
        title == titleOfMinutes(r)
        mins  == parseDurationToMinutes(r.Duration)
    IN  <<IF start # None /\ start[1] # <<>>
            THEN MapSet(maps[1], start[1], MapGet0(maps[1], start[1]) + mins)
            ELSE maps[1],
          IF title # <<>>
            THEN MapSet(maps[2], title, MapGet0(maps[2], title) + mins)
            ELSE maps[2]>>

RECURSIVE mapsMinutes(_)
mapsMinutes(rs) ==
    IF rs = <<>> THEN <<<<>>, <<>>>>
    ELSE forEachMinutes(mapsMinutes(Front(rs)), rs[Len(rs)])

byDayMinutes(rowsOpt) ==
    LET dayMap == IF rowsOpt = None THEN <<>> ELSE mapsMinutes(rowsOpt[1])[1]
    IN  sort("day", [i \in 1..Len(dayMap) |->
                         [day |-> dayMap[i][1], minutes |-> dayMap[i][2]]])

byTitleMinutes(rowsOpt) ==
    LET titleMap == IF rowsOpt = None THEN <<>> ELSE mapsMinutes(rowsOpt[1])[2]
    IN  slice(sort("minutes", [i \in 1..Len(titleMap) |->
                         [title |-> titleMap[i][1], minutes |-> titleMap[i][2]]]),
              0, TOP_TITLES)

\* The series a render of variant v derives from the row set
ByDay(v, rowsOpt) == IF v = "count" THEN byDayCount(rowsOpt) ELSE byDayMinutes(rowsOpt)
ByTitle(v, rowsOpt) == IF v = "count" THEN byTitleCount(rowsOpt) ELSE byTitleMinutes(rowsOpt)

-----------------------------------------------------------------------------
(* What the CSV parser can hand to the components *)

Seqs(S, n) == UNION {[1..k -> S] : k \in 0..n}

\* Rows of a Title/Date export.  Titles "A: 1", "A", (none), "B", "B", "C";
\* dates "1/2/75", (none), "1/1/75", "", "1/10/75", "1/1/75".
RawPoolCount ==
    { Row(Some(<<65, 58, 32, 49>>), Some(<<49, 47, 50, 47, 55, 53>>), None, None, None),
      Row(Some(<<65>>), None, None, None, None),
      Row(None, Some(SENTINEL), None, None, None),
      Row(Some(<<66>>), Some(<<>>), None, None, None),
      Row(Some(<<66>>), Some(<<49, 47, 49, 48, 47, 55, 53>>), None, None, None),
      Row(Some(<<67>>), Some(SENTINEL), None, None, None) }

\* Rows of a Title/Start Time/Duration export.
\*   "A"  2023-01-05T23:30:00Z            "1:02:03"
\*   "B"  (Start Time UTC) 2023-01-05T01:00:00Z   "45:30"
\*   "A"  "abc"                           "10m"
\*   (no title) 2023-01-04T10:00:00Z      "2h 5m"
\*   "C"  2023-01-04T10:00:00Z            (no duration)
\*   "B"  (no start time)                 "62"
RawPoolMinutes ==
    { Row(Some(<<65>>), None,
          Some(<<50,48,50,51,45,48,49,45,48,53,84,50,51,58,51,48,58,48,48,90>>), None,
          Some(<<49, 58, 48, 50, 58, 48, 51>>)),
      Row(Some(<<66>>), None, None,
          Some(<<50,48,50,51,45,48,49,45,48,53,84,48,49,58,48,48,58,48,48,90>>),
          Some(<<52, 53, 58, 51, 48>>)),
      Row(Some(<<65>>), None, Some(<<97, 98, 99>>), None, Some(<<49, 48, 109>>)),
      Row(None, None,
          Some(<<50,48,50,51,45,48,49,45,48,52,84,49,48,58,48,48,58,48,48,90>>), None,
          Some(<<50, 104, 32, 53, 109>>)),
      Row(Some(<<67>>), None,
          Some(<<50,48,50,51,45,48,49,45,48,52,84,49,48,58,48,48,58,48,48,90>>), None,
          None),
      Row(Some(<<66>>), None, None, None, Some(<<54, 50>>)) }

\* part_000, handleFile.complete: result.data.map(r => ({Title: identifyShow(r.Title), Date: r.Date}))
normalized(data) ==
    [i \in 1..Len(data) |->
        Row(Some(identifyShow(data[i].Title)), data[i].Date, None, None, None)]

\* the argument of setRows in the completion callback of variant v
rowsOfResult(v, data) == IF v = "count" THEN normalized(data) ELSE data

Variants == {"count", "duration"}

RawPool(v) == IF v = "count" THEN RawPoolCount ELSE RawPoolMinutes

-----------------------------------------------------------------------------
(* SpecAgg: the aggregation as a function of the row set.  Init draws the    *)
(* row set a completed parse stored; Render is the useMemo of the render    *)
(* that follows.                                                            *)

InitAgg ==
    /\ variant \in Variants
    /\ \E data \in Seqs(RawPool(variant), MaxRows) :
          rows = Some(rowsOfResult(variant, data))
    /\ error = None
    /\ page = 0
    /\ byDay = <<>>
    /\ byTitle = <<>>
    /\ selected = None
    /\ parses = <<>>
    /\ pc = "set"
    /\ raw = None
    /\ minutes = None

Render ==
    /\ pc = "set"
    /\ byDay' = ByDay(variant, rows)
    /\ byTitle' = ByTitle(variant, rows)
    /\ pc' = "rendered"
    /\ UNCHANGED <<variant, rows, error, page, selected, parses, raw, minutes>>

NextAgg == Render

SpecAgg == InitAgg /\ [][NextAgg]_vars

-----------------------------------------------------------------------------
(* Vocabulary of the properties *)

RECURSIVE SumSeq(_)
SumSeq(s) == IF s = <<>> THEN 0 ELSE SumSeq(Front(s)) + s[Len(s)]

\* the metric of a DayPoint or TitlePoint of the running variant
Metric(p) == IF variant = "count" THEN p.watched ELSE p.minutes

Total(series) == SumSeq([i \in 1..Len(series) |-> Metric(series[i])])

RowsNow == IF rows = None THEN <<>> ELSE rows[1]

\* what one row contributes
MetricOfRow(r) == IF variant = "count" THEN 1 ELSE parseDurationToMinutes(r.Duration)

\* the title a row is filed under
TitleKey(r) == IF r.Title = None THEN <<>> ELSE r.Title[1]

\* the day a row is filed under, if any
DayKey(r) ==
    IF variant = "count"
    THEN Some(IF r.Date = None THEN SENTINEL ELSE r.Date[1])
    ELSE toDateKey(IF r.StartTime # None THEN r.StartTime ELSE r.StartTimeUTC)

TitleTotal(t) ==
    SumSeq([i \in 1..Len(RowsNow) |->
              IF TitleKey(RowsNow[i]) = t THEN MetricOfRow(RowsNow[i]) ELSE 0])

DayTotal(d) ==
    SumSeq([i \in 1..Len(RowsNow) |->
              IF DayKey(RowsNow[i]) = Some(d) THEN MetricOfRow(RowsNow[i]) ELSE 0])

\* index of the first row filed under title t
FirstRowOf(t) ==
    CHOOSE i \in 1..Len(RowsNow) :
        /\ TitleKey(RowsNow[i]) = t
        /\ \A j \in 1..(i - 1) : TitleKey(RowsNow[j]) # t

HasDateAndTitle(r) == r.Date # None /\ r.Title # None /\ r.Title[1] # <<>>

-----------------------------------------------------------------------------
(* Properties of the aggregation, checked under SpecAgg *)

\* C2: count variant. When every row has both a date and a title, the sum of
\* `watched` over byTitle equals the sum of `watched` over byDay, and both
\* equal the number of rows.
C2_Conservation ==
    (/\ pc = "rendered" /\ variant = "count"
     /\ \A i \in 1..Len(RowsNow) : HasDateAndTitle(RowsNow[i]))
    => /\ Total(byTitle) = Total(byDay)
       /\ Total(byDay) = Len(RowsNow)

\* C2 witness: three such rows, two of them sharing a title and two a day.
C2_Witness ==
    /\ pc = "rendered" /\ variant = "count" /\ Len(RowsNow) = 3
    /\ \A i \in 1..3 : HasDateAndTitle(RowsNow[i])
    /\ Len(byTitle) = 2 /\ Len(byDay) = 2

\* C3 as stated: in both variants every row's metric reaches the title series
\* under its resolved title, the empty string for a missing title.
C3_Original ==
    pc = "rendered" =>
        \A i \in 1..Len(RowsNow) :
            \E k \in 1..Len(byTitle) :
                /\ byTitle[k].title = TitleKey(RowsNow[i])
                /\ Metric(byTitle[k]) = TitleTotal(TitleKey(RowsNow[i]))

\* C3 amended: the count variant accumulates every row into both series, a
\* missing title under "". The duration variant accumulates a row's minutes
\* into the title series only when its title is non-empty (no "" entry ever
\* exists) and into the day series only when its start time parses.
C3_Accumulation ==
    pc = "rendered" =>
        /\ \A i \in 1..Len(RowsNow) :
              LET r == RowsNow[i] IN
              /\ (variant = "count" \/ TitleKey(r) # <<>>) =>
                    \E k \in 1..Len(byTitle) :
                        /\ byTitle[k].title = TitleKey(r)
                        /\ Metric(byTitle[k]) = TitleTotal(TitleKey(r))
              /\ DayKey(r) # None =>
                    \E k \in 1..Len(byDay) :
                        /\ byDay[k].day = DayKey(r)[1]
                        /\ Metric(byDay[k]) = DayTotal(DayKey(r)[1])
              /\ variant = "count" => DayKey(r) # None
        /\ variant = "duration" =>
              /\ \A k \in 1..Len(byTitle) : byTitle[k].title # <<>>
              /\ \A k \in 1..Len(byDay) :
                    \E i \in 1..Len(RowsNow) : DayKey(RowsNow[i]) = Some(byDay[k].day)

\* C3 witness: a duration-variant render of a row without a title and with
\* minutes, next to a titled row; and (count) a row without a title filed
\* under "".
C3_Witness ==
    /\ pc = "rendered" /\ variant = "duration"
    /\ \E i \in 1..Len(RowsNow) :
          /\ RowsNow[i].Title = None /\ MetricOfRow(RowsNow[i]) > 0
          /\ DayKey(RowsNow[i]) # None
    /\ \E i \in 1..Len(RowsNow) : DayKey(RowsNow[i]) = None /\ TitleKey(RowsNow[i]) # <<>>
    /\ Len(byTitle) >= 1 /\ Len(byDay) >= 1

\* C4: byTitle is sorted non-increasing by metric, and titles of equal metric
\* stand in the order of their first occurrence in the rows.
C4_TitleOrder ==
    pc = "rendered" =>
        \A i, j \in 1..Len(byTitle) :
            i < j =>
                /\ Metric(byTitle[i]) >= Metric(byTitle[j])
                /\ Metric(byTitle[i]) = Metric(byTitle[j]) =>
                      FirstRowOf(byTitle[i].title) < FirstRowOf(byTitle[j].title)

\* C4 witness: the sort moved the first title of the rows to the end, and the
\* two titles ahead of it tie.
C4_Witness ==
    /\ pc = "rendered" /\ Len(byTitle) = 3
    /\ FirstRowOf(byTitle[3].title) < FirstRowOf(byTitle[1].title)
    /\ Metric(byTitle[1]) = Metric(byTitle[2])
    /\ Metric(byTitle[2]) > Metric(byTitle[3])

\* C5: byDay holds each distinct day key of the rows exactly once and is
\* strictly ascending by string comparison of the keys.
C5_DayOrder ==
    pc = "rendered" =>
        /\ \A i, j \in 1..Len(byDay) : i < j => StrLess(byDay[i].day, byDay[j].day)
        /\ {byDay[k].day : k \in 1..Len(byDay)} =
              {DayKey(RowsNow[i])[1] :
                  i \in {n \in 1..Len(RowsNow) : DayKey(RowsNow[n]) # None}}

\* C5 witness: two distinct days, the later one occurring first and twice.
C5_Witness ==
    /\ pc = "rendered" /\ Len(byDay) = 2 /\ Len(RowsNow) = 3
    /\ \A i \in 1..3 : DayKey(RowsNow[i]) # None
    /\ StrLess(DayKey(RowsNow[3])[1], DayKey(RowsNow[1])[1])
    /\ DayKey(RowsNow[1]) = DayKey(RowsNow[2])

\* C8: count variant. The rows without a Date are counted under "1/1/75":
\* byDay has exactly one entry of that day, its metric is the number of rows
\* with no Date plus those literally dated "1/1/75", and every other entry
\* counts exactly the rows carrying its own date.
C8_Sentinel ==
    (/\ pc = "rendered" /\ variant = "count"
     /\ \E i \in 1..Len(RowsNow) : RowsNow[i].Date = None)
    => /\ Cardinality({k \in 1..Len(byDay) : byDay[k].day = SENTINEL}) = 1
       /\ \A k \in 1..Len(byDay) :
             byDay[k].watched =
                Cardinality({i \in 1..Len(RowsNow) :
                    \/ RowsNow[i].Date = Some(byDay[k].day)
                    \/ byDay[k].day = SENTINEL /\ RowsNow[i].Date = None})

\* C8 witness: a row without a Date, a row literally dated "1/1/75" and a row
\* with an empty Date rendered together.
C8_Witness ==
    /\ pc = "rendered" /\ variant = "count"
    /\ \E i \in 1..Len(RowsNow) : RowsNow[i].Date = None
    /\ \E i \in 1..Len(RowsNow) : RowsNow[i].Date = Some(SENTINEL)
    /\ \E i \in 1..Len(RowsNow) : RowsNow[i].Date = Some(<<>>)
    /\ \E k \in 1..Len(byDay) : byDay[k].day = SENTINEL /\ byDay[k].watched = 2

-----------------------------------------------------------------------------
(* Spec: the component as the user drives it.  A file is what Papa.parse    *)
(* will report for it: the rows and error descriptors of result, or the     *)
(* message of a read failure handed to the `error` callback.                *)

CsvFile(data, errors, fails) == [data |-> data, errors |-> errors, fails |-> fails]

\* n rows of n distinct single-letter titles, all dated "1/2/75"
TitleRows(n) ==
    [i \in 1..n |-> Row(Some(<<64 + i>>), Some(<<49, 47, 50, 47, 55, 53>>), None, None, None)]

FilesCount ==
    { CsvFile(TitleRows(n), <<>>, None) : n \in {0, 1, PAGE_SIZE + 1, MaxTitles} }
    \cup
    { CsvFile(<<Row(Some(<<66, 58, 32, 50>>), None, None, None, None),
                Row(Some(<<67>>), Some(SENTINEL), None, None, None)>>,
              <<"Too few fields", "Quoted field unterminated">>, None),
      CsvFile(<<>>, <<>>, Some("NotReadableError")) }

FilesMinutes ==
    { CsvFile(data, <<>>, None) : data \in Seqs(RawPoolMinutes, 1) }
    \cup
    { CsvFile(<<Row(Some(<<67>>), None, None, None, Some(<<49, 48, 109>>))>>,
              <<"Too few fields", "Quoted field unterminated">>, None),
      CsvFile(<<>>, <<>>, Some("NotReadableError")) }

Files(v) == IF v = "count" THEN FilesCount ELSE FilesMinutes

RemoveAt(s, i) == SubSeq(s, 1, i - 1) \o SubSeq(s, i + 1, Len(s))

\* part_000: Math.max(1, Math.ceil(byTitle.length / PAGE_SIZE))
totalPages == Max(1, (Len(byTitle) + PAGE_SIZE - 1) \div PAGE_SIZE)

\* seeded fault: the page index used as it is, not clamped to the last page
safePage_Unclamped == page

\* part_000: Math.min(page, totalPages - 1)
safePage == Min(page, totalPages - 1)

\* part_000: byTitle.slice(safePage * PAGE_SIZE, (safePage + 1) * PAGE_SIZE)
pageData == slice(byTitle, safePage * PAGE_SIZE, (safePage + 1) * PAGE_SIZE)

Init ==
    /\ variant \in Variants
    /\ rows = None
    /\ error = None
    /\ page = 0
    /\ byDay = ByDay(variant, None)
    /\ byTitle = ByTitle(variant, None)
    /\ selected = None
    /\ parses = <<>>
    /\ pc = "app"
    /\ raw = None
    /\ minutes = None

\* onChange of the file input: handleFile(f) up to the return of Papa.parse
handleFile(f) ==
    /\ Len(parses) < MaxInFlight
    /\ selected' = Some(f)
    /\ error' = None
    /\ parses' = Append(parses, f)
    /\ UNCHANGED <<variant, rows, page, byDay, byTitle, pc, raw, minutes>>

\* seeded fault: the callback returns after setError when the parser reported errors
complete_DropsRowsOnError(i) ==
    /\ i \in 1..Len(parses)
    /\ parses[i].fails = None
    /\ LET result == parses[i]
           newRows == IF Len(result.errors) > 0 THEN rows
                      ELSE Some(rowsOfResult(variant, result.data))
       IN  /\ error' = IF Len(result.errors) > 0 THEN Some(result.errors[1]) ELSE error
           /\ rows' = newRows
           /\ byDay' = ByDay(variant, newRows)
           /\ byTitle' = ByTitle(variant, newRows)
    /\ parses' = RemoveAt(parses, i)
    /\ UNCHANGED <<variant, page, selected, pc, raw, minutes>>

\* the `complete` callback of the i-th parse in flight, and the render after it
complete(i) ==
    /\ i \in 1..Len(parses)
    /\ parses[i].fails = None
    /\ LET result == parses[i]
           newRows == Some(rowsOfResult(variant, result.data))
       IN  /\ error' = IF Len(result.errors) > 0 THEN Some(result.errors[1]) ELSE error
           /\ rows' = newRows
           /\ byDay' = ByDay(variant, newRows)
           /\ byTitle' = ByTitle(variant, newRows)
    /\ parses' = RemoveAt(parses, i)
    /\ UNCHANGED <<variant, page, selected, pc, raw, minutes>>

\* the `error` callback of the i-th parse in flight
parseError(i) ==
    /\ i \in 1..Len(parses)
    /\ parses[i].fails # None
    /\ error' = Some(parses[i].fails[1])
    /\ parses' = RemoveAt(parses, i)
    /\ UNCHANGED <<variant, rows, page, byDay, byTitle, selected, pc, raw, minutes>>

\* seeded fault: "Clear data" also resets the error message and the page index
clearData_ResetsAll ==
    /\ rows # None
    /\ rows' = None
    /\ error' = None
    /\ page' = 0
    /\ byDay' = ByDay(variant, None)
    /\ byTitle' = ByTitle(variant, None)
    /\ UNCHANGED <<variant, selected, parses, pc, raw, minutes>>

\* onClick of "Clear data", rendered only while rows is set
clearData ==
    /\ rows # None
    /\ rows' = None
    /\ byDay' = ByDay(variant, None)
    /\ byTitle' = ByTitle(variant, None)
    /\ UNCHANGED <<variant, error, page, selected, parses, pc, raw, minutes>>

\* onClick of "Prev" (part_000), disabled while safePage === 0
prevPage ==
    /\ variant = "count" /\ rows # None
    /\ safePage # 0
    /\ page' = Max(0, page - 1)
    /\ UNCHANGED <<variant, rows, error, byDay, byTitle, selected, parses, pc, raw, minutes>>

\* onClick of "Next" (part_000), disabled while safePage >= totalPages - 1
nextPage ==
    /\ variant = "count" /\ rows # None
    /\ ~(safePage >= totalPages - 1)
    /\ page' = Min(totalPages - 1, page + 1)
    /\ UNCHANGED <<variant, rows, error, byDay, byTitle, selected, parses, pc, raw, minutes>>

Next ==
    \/ \E f \in Files(variant) : handleFile(f)
    \/ \E i \in 1..MaxInFlight : complete(i)
    \/ \E i \in 1..MaxInFlight : parseError(i)
    \/ clearData
    \/ prevPage
    \/ nextPage

Spec == Init /\ [][Next]_vars

-----------------------------------------------------------------------------
(* Properties of the component, checked under Spec *)

\* C1: once every started parse has called back, rows are those of the most
\* recently selected file, never those of an earlier selection.
C1_LatestSelectionWins ==
    (/\ parses = <<>> /\ selected # None /\ selected[1].fails = None
     /\ rows # None)
    => rows = Some(rowsOfResult(variant, selected[1].data))

\* the step is the `complete` callback of the i-th parse in flight
IsCompleteOf(i) ==
    /\ i \in 1..Len(parses)
    /\ parses[i].fails = None
    /\ parses' = RemoveAt(parses, i)

\* C7: a completion callback that reports errors sets error to the first
\* error's message and still sets rows to the rows the parser recovered; one
\* that reports none leaves error as it is (null stays null) and sets rows.
C7_ErrorKeepsRows ==
    [][\A i \in 1..MaxInFlight :
          IsCompleteOf(i) =>
             /\ rows' = Some(rowsOfResult(variant, parses[i].data))
             /\ byTitle' = ByTitle(variant, rows')
             /\ parses[i].errors # <<>> => error' = Some(parses[i].errors[1])
             /\ parses[i].errors = <<>> => error' = error]_vars

\* C7 witness: the erroring file has completed: its first message is shown
\* and the rows it recovered are the row set.
C7_Witness ==
    /\ parses = <<>>
    /\ error = Some("Too few fields")
    /\ rows # None /\ Len(rows[1]) >= 1
    /\ selected # None /\ selected[1].errors # <<>>
    /\ rows = Some(rowsOfResult(variant, selected[1].data))
    /\ Len(byTitle) >= 1

\* C9: count variant. Whatever the sequence of Prev, Next, loads and Clear
\* data, 0 <= safePage <= totalPages - 1 with totalPages the least number of
\* pages of 8 that hold byTitle (at least 1), pageData has at most 8 entries,
\* and pageData is non-empty whenever byTitle is.
C9_PageInRange ==
    variant = "count" =>
        /\ 0 <= safePage /\ safePage <= totalPages - 1
        /\ totalPages >= 1
        /\ totalPages * PAGE_SIZE >= Len(byTitle)
        /\ totalPages > 1 => (totalPages - 1) * PAGE_SIZE < Len(byTitle)
        /\ Len(pageData) <= PAGE_SIZE
        /\ byTitle # <<>> => pageData # <<>>
        /\ \A k \in 1..Len(pageData) : pageData[k] = byTitle[safePage * PAGE_SIZE + k]

\* C9 witness: a load shrank the title list under the page index: page points
\* past the last page while a non-empty list is shown.
C9_Witness ==
    /\ variant = "count" /\ rows # None
    /\ page > totalPages - 1
    /\ byTitle # <<>>

\* C10: Clear data sets rows to null, so that byDay and byTitle are empty,
\* and changes nothing else: not the error message, not the page index, not
\* the selection nor the parses in flight.
C10_ClearFrame ==
    [][(rows # None /\ rows' = None) =>
          /\ byDay' = <<>> /\ byTitle' = <<>>
          /\ error' = error /\ page' = page
          /\ selected' = selected /\ parses' = parses]_vars

\* C10 witness: the data was cleared while an error message was shown and
\* the second page was selected; both are still there.
C10_Witness ==
    /\ rows = None /\ byDay = <<>> /\ byTitle = <<>>
    /\ error # None /\ page > 0
    /\ selected # None /\ selected[1].fails = None /\ parses = <<>>

-----------------------------------------------------------------------------
(* SpecParse: parseDurationToMinutes as a function of its argument.  Init    *)
(* draws the Duration cell; parse applies the function.                     *)

\* the pieces Duration cells are put together from:
\* "1", "9", ":", "h", "m", "in", " "
Tokens == { <<49>>, <<57>>, <<58>>, <<104>>, <<109>>, <<105, 110>>, <<32>> }

RECURSIVE Concat(_)
Concat(ts) == IF ts = <<>> THEN <<>> ELSE Concat(Front(ts)) \o ts[Len(ts)]

\* "1:02:03", "45:30", "2h 5m", "10m", "abc", " 5 MIN ", "2H5M", "123:45",
\* "1:02:75", ""
Examples ==
    { <<49, 58, 48, 50, 58, 48, 51>>, <<52, 53, 58, 51, 48>>,
      <<50, 104, 32, 53, 109>>, <<49, 48, 109>>, <<97, 98, 99>>,
      <<32, 53, 32, 77, 73, 78, 32>>, <<50, 72, 53, 77>>,
      <<49, 50, 51, 58, 52, 53>>, <<49, 58, 48, 50, 58, 55, 53>>, <<>> }

Durations ==
    {None} \cup {Some(e) : e \in Examples}
           \cup {Some(Concat(ts)) : ts \in Seqs(Tokens, MaxLen)}

InitParse ==
    /\ variant = "duration"
    /\ rows = None
    /\ error = None
    /\ page = 0
    /\ byDay = <<>>
    /\ byTitle = <<>>
    /\ selected = None
    /\ parses = <<>>
    /\ pc = "input"
    /\ raw \in Durations
    /\ minutes = None

parse ==
    /\ pc = "input"
    /\ minutes' = Some(parseDurationToMinutes(raw))
    /\ pc' = "parsed"
    /\ UNCHANGED <<variant, rows, error, page, byDay, byTitle, selected, parses, raw>>

NextParse == parse

SpecParse == InitParse /\ [][NextParse]_vars

-----------------------------------------------------------------------------
(* The reference rules for durations, stated by decomposition of the text *)

AllDigits(s, lo, hi) == lo <= hi /\ \A k \in lo..hi : IsDigit(s[k])
AllSpaces(s, lo, hi) == \A k \in lo..hi : IsSpace(s[k])

\* the number a run of decimal digits denotes
RECURSIVE Num(_)
Num(ds) == IF Len(ds) = 0 THEN 0
           ELSE (ds[1] - 48) * (10 ^ (Len(ds) - 1)) + Num(Tail(ds))

RECURSIVE DropLeading(_)
DropLeading(s) == IF s # <<>> /\ IsSpace(s[1]) THEN DropLeading(Tail(s)) ELSE s

RECURSIVE DropTrailing(_)
DropTrailing(s) ==
    IF s # <<>> /\ IsSpace(s[Len(s)]) THEN DropTrailing(Front(s)) ELSE s

Stripped(s) == DropTrailing(DropLeading(s))

\* H:MM:SS -> hours * 60 + minutes + floor(seconds / 60)
RefHMS(t) ==
    { Num(SubSeq(t, 1, i - 1)) * 60 + Num(SubSeq(t, i + 1, j - 1))
        + (Num(SubSeq(t, j + 1, Len(t))) \div 60) :
      <<i, j>> \in { p \in (1..Len(t)) \X (1..Len(t)) :
          /\ p[1] < p[2] /\ t[p[1]] = 58 /\ t[p[2]] = 58
          /\ AllDigits(t, 1, p[1] - 1)
          /\ AllDigits(t, p[1] + 1, p[2] - 1) /\ p[2] - p[1] - 1 <= 2
          /\ AllDigits(t, p[2] + 1, Len(t)) /\ Len(t) - p[2] <= 2 } }

\* MM:SS -> minutes + floor(seconds / 60)
RefMS(t) ==
    { Num(SubSeq(t, 1, i - 1)) + (Num(SubSeq(t, i + 1, Len(t))) \div 60) :
      i \in { p \in 1..Len(t) :
          /\ t[p] = 58
          /\ AllDigits(t, 1, p - 1) /\ p - 1 <= 2
          /\ AllDigits(t, p + 1, Len(t)) /\ Len(t) - p <= 2 } }

\* "Xh Ym" -> X * 60 + Y; blanks around the unit letters are optional and the
\* letters may be of either case.  A reading <<a, b, c>>: X is t[1..a], Y is
\* t[b..c], the "h" stands between them and the "m" ends the text.
HMReadings(t) ==
    UNION { UNION { UNION { { <<a, b, c>> :
                c \in { z \in b..(Len(t) - 1) :
                           AllDigits(t, b, z) /\ AllSpaces(t, z + 1, Len(t) - 1) } } :
            b \in { y \in (h + 1)..Len(t) : AllSpaces(t, h + 1, y - 1) } } :
        h \in { x \in (a + 1)..Len(t) :
                   AllSpaces(t, a + 1, x - 1) /\ t[x] \in {104, 72} } } :
    a \in { w \in 1..Len(t) : AllDigits(t, 1, w) /\ t[Len(t)] \in {109, 77} } }

RefHM(t) ==
    { Num(SubSeq(t, 1, q[1])) * 60 + Num(SubSeq(t, q[2], q[3])) : q \in HMReadings(t) }

\* "Xm" or "X min" -> X; the blank is optional, the letters of either case
RefM(t) ==
    { Num(SubSeq(t, 1, q[1])) :
      q \in { p \in (1..Len(t)) \X (1..Len(t)) :
          /\ AllDigits(t, 1, p[1])
          /\ p[1] < p[2] /\ AllSpaces(t, p[1] + 1, p[2] - 1)
          /\ t[p[2]] \in {109, 77}
          /\ \/ p[2] = Len(t)
             \/ /\ p[2] + 2 = Len(t)
                /\ t[p[2] + 1] \in {105, 73} /\ t[p[2] + 2] \in {110, 78} } }

\* a bare integer -> that integer
RefInt(t) == IF AllDigits(t, 1, Len(t)) THEN {Num(t)} ELSE {}

\* the rules in their precedence; anything else, and an absent string, is 0
RefMinutes(rawOpt) ==
    IF rawOpt = None THEN 0
    ELSE LET t == Stripped(rawOpt[1])
             first == IF RefHMS(t) # {} THEN RefHMS(t)
                      ELSE IF RefMS(t) # {} THEN RefMS(t)
                      ELSE IF RefHM(t) # {} THEN RefHM(t)
                      ELSE IF RefM(t) # {} THEN RefM(t)
                      ELSE RefInt(t)
         IN  IF first = {} THEN 0 ELSE CHOOSE n \in first : TRUE

\* the worked examples as the claim gives them:
\* "1:02:03" -> 63, "45:30" -> 45, "2h 5m" -> 125, "10m" -> 10, "abc" -> 0
ExamplesAsClaimed ==
    { <<<<49, 58, 48, 50, 58, 48, 51>>, 63>>, <<<<52, 53, 58, 51, 48>>, 45>>,
      <<<<50, 104, 32, 53, 109>>, 125>>, <<<<49, 48, 109>>, 10>>,
      <<<<97, 98, 99>>, 0>> }

\* the same with the first one as the H:MM:SS rule gives it: "1:02:03" -> 62
ExamplesByRule ==
    { <<<<49, 58, 48, 50, 58, 48, 51>>, 62>>, <<<<52, 53, 58, 51, 48>>, 45>>,
      <<<<50, 104, 32, 53, 109>>, 125>>, <<<<49, 48, 109>>, 10>>,
      <<<<97, 98, 99>>, 0>> }

-----------------------------------------------------------------------------
(* Properties of parseDurationToMinutes, checked under SpecParse *)

\* C6 as stated: the result follows the reference rules in their precedence
\* and the five worked examples give 63, 45, 125, 10 and 0.
C6_Original ==
    pc = "parsed" =>
        /\ minutes = Some(RefMinutes(raw))
        /\ \A ex \in ExamplesAsClaimed : raw = Some(ex[1]) => minutes = Some(ex[2])

\* C6 amended: the result follows the reference rules in their precedence
\* (every rule has exactly one reading of a text) and the worked examples give
\* 62, 45, 125, 10 and 0: "1:02:03" is 1*60 + 2 + floor(3/60) = 62.
C6_DurationRules ==
    pc = "parsed" =>
        /\ minutes = Some(RefMinutes(raw))
        /\ \A ex \in ExamplesByRule : raw = Some(ex[1]) => minutes = Some(ex[2])
        /\ raw # None =>
              \A S \in {RefHMS(Stripped(raw[1])), RefMS(Stripped(raw[1])),
                        RefHM(Stripped(raw[1])), RefM(Stripped(raw[1]))} :
                  Cardinality(S) <= 1

\* C6 witness: "1:02:03" has been parsed, to 62 minutes.
C6_Witness ==
    /\ pc = "parsed"
    /\ raw = Some(<<49, 58, 48, 50, 58, 48, 51>>)
    /\ minutes = Some(62)

=============================================================================
